---- MODULE Spec2Model ----
(***************************************************************************)
(* A model of causality/estimation/parametric.py: the two estimators       *)
(* DifferenceInDifferences and PropensityScoreMatching.                    *)
(*                                                                         *)
(* A DataFrame is a record [n, cols]: n rows and cols a function from the  *)
(* names of the columns that are present to their value sequences.        *)
(* Row positions are 1-based here (0-based in Python).  Floats are exact   *)
(* rationals [n, d]; d = 0 stands for NaN.                                 *)
(***************************************************************************)
EXTENDS Integers, Sequences, FiniteSets, TLC

\* ----------------------------------------------------------------- bounds
MaxRows == 3          \* rows of a table handed to one estimator call
MaxObjRows == 2       \* rows of the table of an object that is called repeatedly
MaxMatchRows == 3     \* rows of an already scored table handed to match
MaxNeighbors == 2     \* largest n_neighbors tried
MaxCalls == 2         \* calls made on one PropensityScoreMatching object
MaxDiDRows == 3       \* rows of a table handed to DifferenceInDifferences

\* ----------------------------------------------------------- exact numbers
RECURSIVE GCD(_, _)
GCD(a, b) == IF b = 0 THEN a ELSE GCD(b, a % b)

Abs(a) == IF a < 0 THEN -a ELSE a

\* the member of a one-element set: Only({e(v) : v \in {d}}) is e(d), with d
\* worked out once
Only(S) == CHOOSE v \in S : TRUE

NaN == [n |-> 0, d |-> 0]

IsNaN(q) == q.d = 0

Rat(a, b) ==
    IF b = 0 THEN NaN
    ELSE Only({[n |-> ((IF b < 0 THEN -1 ELSE 1) * a) \div g,
                d |-> ((IF b < 0 THEN -1 ELSE 1) * b) \div g] : g \in {GCD(Abs(a), Abs(b))}})

RatInt(a) == [n |-> a, d |-> 1]

RatAdd(p, q) ==
    Only({IF IsNaN(a) \/ IsNaN(b) THEN NaN ELSE Rat(a.n * b.d + b.n * a.d, a.d * b.d) :
            a \in {p}, b \in {q}})

RatNeg(p) == Only({IF IsNaN(a) THEN NaN ELSE [n |-> -a.n, d |-> a.d] : a \in {p}})

RatSub(p, q) == RatAdd(p, RatNeg(q))

RatMul(p, q) ==
    Only({IF IsNaN(a) \/ IsNaN(b) THEN NaN ELSE Rat(a.n * b.n, a.d * b.d) :
            a \in {p}, b \in {q}})

RECURSIVE RatSum(_)
RatSum(s) == IF s = <<>> THEN RatInt(0) ELSE RatAdd(Head(s), RatSum(Tail(s)))

\* Series.mean(): NaN on an empty series
Mean(s) == IF s = <<>> THEN NaN ELSE RatMul(RatSum(s), Rat(1, Len(s)))

\* ------------------------------------------------------------ data frames
EmptyMap == [c \in {} |-> <<>>]

\* obj: the columns of object dtype (category labels, here coded 0 and 1);
\* every other column is numeric
Frame(n, cols, obj) == [n |-> n, cols |-> cols, obj |-> obj]

HasCol(F, c) == c \in DOMAIN F.cols

\* the members of a set of positions, in increasing order
RECURSIVE Ascending(_)
Ascending(S) ==
    IF S = {} THEN <<>>
    ELSE LET m == CHOOSE a \in S : \A b \in S : a <= b
         IN  <<m>> \o Ascending(S \ {m})

\* X[X[col] == v]: the rows whose col equals v, in table order, every column kept
RowsWhere(F, col, v) ==
    Only({Frame(Len(pos),
                [c \in DOMAIN F.cols |-> [j \in 1..Len(pos) |-> F.cols[c][pos[j]]]],
                F.obj) :
            pos \in {Ascending({i \in 1..F.n : F.cols[col][i] = v})}})

\* F with column c set to the values vals (added, or overwritten)
WithCol(F, c, vals) ==
    Frame(F.n, [k \in DOMAIN F.cols \cup {c} |-> IF k = c THEN vals ELSE F.cols[k]],
          F.obj \ {c})

ConstCol(n, v) == [i \in 1..n |-> v]

\* ------------------------------------------- PropensityScoreMatching.score
Levels == {0, 1}                 \* the values a confounder takes
DummyName == [l \in Levels |-> IF l = 0 THEN "x_0" ELSE "x_1"]

DCol(name, vals, numeric) == [name |-> name, vals |-> vals, numeric |-> numeric]

\* pd.get_dummies(X[[confounder]], prefix=confounder): one indicator column per
\* level present, in level order, for a column of labels; a numeric column comes
\* back as it is
GetDummies(F, conf) ==
    IF conf \notin F.obj
    THEN <<DCol(conf, F.cols[conf], TRUE)>>
    ELSE Only({[j \in 1..Len(present) |->
                  DCol(DummyName[present[j]],
                       [i \in 1..F.n |-> IF F.cols[conf][i] = present[j] THEN 1 ELSE 0],
                       TRUE)] :
                 present \in {Ascending({l \in Levels : \E i \in 1..F.n : F.cols[conf][i] = l})}})

\* the loop body of score for one confounder: the design columns it adds
ConfounderColumns(F, conf, var_type) ==
    IF var_type = "o" \/ var_type = "u"
    THEN Only({IF Len(c_dummies) = 1 THEN c_dummies
               ELSE IF c_dummies = <<>> THEN <<>> ELSE Tail(c_dummies) :
                 c_dummies \in {GetDummies(F, conf)}})
    ELSE <<DCol(conf, F.cols[conf], conf \notin F.obj)>>

\* df[regression_confounders]: confounder_types maps at most the confounder "x"
DesignColumns(F, confounder_types, intercept) ==
    (IF "x" \in DOMAIN confounder_types
     THEN ConfounderColumns(F, "x", confounder_types["x"]) ELSE <<>>)
    \o (IF intercept THEN <<DCol("intercept", ConstCol(F.n, 1), TRUE)>> ELSE <<>>)

\* Logit(endog, exog).fit() and predict(exog), for a design of at most two 0/1
\* columns.  Newton's method inverts the Hessian, which is singular when a column
\* is all zero or two columns are equal.  Otherwise the rows fall into cells of
\* equal design rows with one free parameter each, and the maximum-likelihood
\* probability of a cell is its share of assignment = 1 rows (1/2 for the cell of
\* the all-zero design row, whose linear predictor is 0); a cell of one kind only
\* is fitted at the limit 0 or 1.  A fit that predicts every row perfectly raises
\* PerfectSeparationError.
SameDesignRow(cols, i, j) == \A c \in 1..Len(cols) : cols[c].vals[i] = cols[c].vals[j]

ZeroDesignRow(cols, i) == \A c \in 1..Len(cols) : cols[c].vals[i] = 0

CellShare(endog, cols, i) ==
    Only({Rat(Cardinality({j \in cell : endog[j] = 1}), Cardinality(cell)) :
            cell \in {{j \in 1..Len(endog) : SameDesignRow(cols, i, j)}}})

FittedValues(endog, cols) ==
    [i \in 1..Len(endog) |->
        IF ZeroDesignRow(cols, i) THEN Rat(1, 2) ELSE CellShare(endog, cols, i)]

FitFailure(e) == [err |-> e, names |-> <<>>, fitted |-> <<>>]

FitOf(endog, cols, fitted) ==
    IF \A i \in 1..Len(endog) : fitted[i] = RatInt(endog[i])
    THEN FitFailure("PerfectSeparationError")
    ELSE [err |-> "none", names |-> [c \in 1..Len(cols) |-> cols[c].name],
          fitted |-> fitted]

LogitFit(endog, cols) ==
    IF Len(endog) = 0 \/ cols = <<>> THEN FitFailure("ValueError")
    ELSE IF \E c \in 1..Len(cols) : ~cols[c].numeric THEN FitFailure("ValueError")
    ELSE IF \/ \E c \in 1..Len(cols) : \A i \in 1..Len(endog) : cols[c].vals[i] = 0
            \/ \E c, e \in 1..Len(cols) : c # e /\ cols[c].vals = cols[e].vals
         THEN FitFailure("LinAlgError")
    ELSE Only({FitOf(endog, cols, fitted) : fitted \in {FittedValues(endog, cols)}})

\* what score leaves in self.propensity_score_model
StoredModel_always(old, model, store_model_fit) == model

StoredModel(old, model, store_model_fit) == IF store_model_fit THEN model ELSE old

NoModel == [err |-> "None", names |-> <<>>, fitted |-> <<>>]

\* score(X, confounder_types, assignment, store_model_fit, intercept):
\* [err, X, model]: the exception raised ("none": it returns), the caller's
\* table afterwards, and self.propensity_score_model afterwards
ScoreCall(F, confounder_types, store_model_fit, intercept, oldmodel) ==
    Only({IF model.err # "none"
          THEN [err |-> model.err, X |-> F, model |-> oldmodel]
          ELSE [err |-> "none",
                X |-> WithCol(F, "propensity score", model.fitted),
                model |-> StoredModel(oldmodel, model, store_model_fit)] :
            model \in {LogitFit(F.cols["assignment"],
                                DesignColumns(F, confounder_types, intercept))}})

\* ------------------------------------------- PropensityScoreMatching.match
\* the order in which the neighbor index returns equally distant points: stable,
\* but not fixed by the code; one of these two orders holds throughout a run
TieOrders == {"low index first", "high index first"}

\* |a - x| < |b - x| and |a - x| = |b - x|, for scores a, b, x
DistNum(a, x) == Abs(a.n * x.d - x.n * a.d)

Nearer(a, b, x) == DistNum(a, x) * b.d < DistNum(b, x) * a.d

Equidistant(a, b, x) == DistNum(a, x) * b.d = DistNum(b, x) * a.d

Before(scores, x, tie, i, j) ==
    \/ Nearer(scores[i], scores[j], x)
    \/ /\ Equidistant(scores[i], scores[j], x)
       /\ IF tie = "low index first" THEN i < j ELSE i > j

\* the positions in S ordered nearest first, cut to k of them
RECURSIVE NearestOf(_, _, _, _, _)
NearestOf(S, scores, x, k, tie) ==
    IF k = 0 \/ S = {} THEN <<>>
    ELSE Only({<<m>> \o NearestOf(S \ {m}, scores, x, k - 1, tie) :
                 m \in {CHOOSE i \in S : \A j \in S \ {i} : Before(scores, x, tie, i, j)}})

\* NearestNeighbors(n_neighbors=k).fit(scores).kneighbors(x)[1][0]: the positions
\* of the k fitted points nearest to x, nearest first
KNeighbors_farthest(scores, x, k, tie) ==
    Only({[j \in 1..k |-> all[Len(all) + 1 - j]] :
            all \in {NearestOf(1..Len(scores), scores, x, Len(scores), tie)}})

KNeighbors(scores, x, k, tie) == NearestOf(1..Len(scores), scores, x, k, tie)

MatchFailure(e, t, c) == [err |-> e, treatments |-> t, control |-> c]

\* match(X, assignment, score, n_neighbors): [err, treatments, control]; t and c
\* are its treatments and control
MatchCall_alltable(F, n_neighbors, tie) ==
    Only({IF ~HasCol(F, "propensity score") THEN MatchFailure("KeyError", t, c)
          ELSE IF F.n = 0 THEN MatchFailure("ValueError", t, c)
          ELSE IF t.n > 0 /\ n_neighbors > F.n THEN MatchFailure("ValueError", t, c)
          ELSE [err |-> "none",
                treatments |->
                    WithCol(t, "matches",
                            [i \in 1..t.n |->
                                KNeighbors(F.cols["propensity score"],
                                           t.cols["propensity score"][i],
                                           n_neighbors, tie)]),
                control |-> c] :
            t \in {RowsWhere(F, "assignment", 1)}, c \in {RowsWhere(F, "assignment", 0)}})

MatchCall(F, n_neighbors, tie) ==
    Only({IF ~HasCol(F, "propensity score") THEN MatchFailure("KeyError", t, c)
          ELSE IF c.n = 0 THEN MatchFailure("ValueError", t, c)
          ELSE IF t.n > 0 /\ n_neighbors > c.n THEN MatchFailure("ValueError", t, c)
          ELSE [err |-> "none",
                treatments |->
                    WithCol(t, "matches",
                            [i \in 1..t.n |->
                                KNeighbors(c.cols["propensity score"],
                                           t.cols["propensity score"][i],
                                           n_neighbors, tie)]),
                control |-> c] :
            t \in {RowsWhere(F, "assignment", 1)}, c \in {RowsWhere(F, "assignment", 0)}})

\* ------------------------------ PropensityScoreMatching.estimate_treatments
\* get_matched_outcome(matches): sum of outcome[i] / len(matches) over matches
MatchedOutcome_first(outcomes, matches) == RatInt(outcomes[matches[1]])

MatchedOutcome(outcomes, matches) ==
    RatSum([j \in 1..Len(matches) |-> Rat(outcomes[matches[j]], Len(matches))])

\* the table the match positions are looked up in: control, not the whole table
EstimateTreatmentsCall(treatments, control) ==
    WithCol(treatments, "control outcome",
            [i \in 1..treatments.n |->
                MatchedOutcome(control.cols["outcome"], treatments.cols["matches"][i])])

\* --------------------------------- estimate_ATT, estimate_ATC, estimate_ATE
IntsToRats(s) == [i \in 1..Len(s) |-> RatInt(s[i])]

\* [err, X, val, model]: the exception raised, the caller's table afterwards, the
\* value returned, and self.propensity_score_model afterwards
ATTValue(t) ==
    RatSub(Mean(IntsToRats(t.cols["outcome"])), Mean(t.cols["control outcome"]))

ATTAfterScore(sc, n_neighbors, tie) ==
    IF sc.err # "none"
    THEN [err |-> sc.err, X |-> sc.X, val |-> NaN, model |-> sc.model]
    ELSE Only({IF m.err # "none"
               THEN [err |-> m.err, X |-> sc.X, val |-> NaN, model |-> sc.model]
               ELSE [err |-> "none", X |-> sc.X,
                     val |-> ATTValue(EstimateTreatmentsCall(m.treatments, m.control)),
                     model |-> sc.model] :
                 m \in {MatchCall(sc.X, n_neighbors, tie)}})

ATTCall(F, confounder_types, n_neighbors, tie, oldmodel) ==
    Only({ATTAfterScore(sc, n_neighbors, tie) :
            sc \in {ScoreCall(F, confounder_types, FALSE, TRUE, oldmodel)}})

\* df[assignment] = (df[assignment] + 1) % 2
Flipped(F) ==
    WithCol(F, "assignment", [i \in 1..F.n |-> (F.cols["assignment"][i] + 1) % 2])

\* df = X.copy(): what estimate_ATC does to df does not reach the caller's table
CallerTable_aliased(X, df) == df

CallerTable(X, df) == X

ATCCall(F, confounder_types, n_neighbors, tie, oldmodel) ==
    Only({[err |-> r.err, X |-> CallerTable(F, r.X),
           val |-> IF r.err = "none" THEN RatNeg(r.val) ELSE NaN, model |-> r.model] :
            r \in {ATTCall(Flipped(F), confounder_types, n_neighbors, tie, oldmodel)}})

\* len(X[X[assignment] == 1]) / float(len(X))
TreatedShare_controls(F) ==
    Rat(Cardinality({i \in 1..F.n : F.cols["assignment"][i] = 0}), F.n)

TreatedShare(F) ==
    Rat(Cardinality({i \in 1..F.n : F.cols["assignment"][i] = 1}), F.n)

ATEValue(p_assignment, att, atc) ==
    RatAdd(RatMul(p_assignment, att), RatMul(RatSub(RatInt(1), p_assignment), atc))

ATEAfterATT(a, confounder_types, n_neighbors, tie) ==
    IF a.err # "none"
    THEN [err |-> a.err, X |-> a.X, val |-> NaN, model |-> a.model]
    ELSE Only({IF c.err # "none"
               THEN [err |-> c.err, X |-> c.X, val |-> NaN, model |-> c.model]
               ELSE [err |-> "none", X |-> c.X,
                     val |-> ATEValue(TreatedShare(c.X), a.val, c.val),
                     model |-> c.model] :
                 c \in {ATCCall(a.X, confounder_types, n_neighbors, tie, a.model)}})

ATECall(F, confounder_types, n_neighbors, tie, oldmodel) ==
    Only({ATEAfterATT(a, confounder_types, n_neighbors, tie) :
            a \in {ATTCall(F, confounder_types, n_neighbors, tie, oldmodel)}})

\* ------------------------------------------------------------------ state
VARIABLES
    X,                        \* the caller's table
    propensity_score_model,   \* self.propensity_score_model (NoModel: None)
    treatments,               \* the treated frame the caller got from match
    control,                  \* the control frame the caller got from match
    tie,                      \* the neighbor index's order among equal distances
    X0,                       \* the table as the caller first had it
    calls,                    \* calls made so far
    call,                     \* the last call: method and arguments
    ret,                      \* the last call's outcome: exception and value
    did_model,                \* DifferenceInDifferences: self.model
    df,                       \* the panel average_treatment_effect last built
    did_call                  \* the last DifferenceInDifferences call and its outcome

didvars == <<did_model, df, did_call>>

vars == <<X, propensity_score_model, treatments, control, tie, X0, calls, call, ret,
          didvars>>

Outcomes == {0, 1}
\* "c", "o" and "d" are the documented tags; "u" and "z" are not, and the code
\* tests for "u"
ConfounderTags == {"c", "o", "d", "u", "z"}
ConfounderTypeMaps == {EmptyMap} \cup {[c \in {"x"} |-> t] : t \in ConfounderTags}
EstimatorTypeMaps == {EmptyMap, [c \in {"x"} |-> "o"]}

NoFrame == Frame(0, EmptyMap, {})

\* the unscored tables of at most m rows: assignment, one confounder x (numeric or
\* labels) and an outcome
Tables(m) ==
    UNION {{Frame(n, [c \in {"assignment", "x", "outcome"} |->
                        IF c = "assignment" THEN a ELSE IF c = "x" THEN x ELSE o], obj) :
              a \in [1..n -> {0, 1}], x \in [1..n -> Levels], o \in [1..n -> Outcomes],
              obj \in {{}, {"x"}}} : n \in 0..m}

Call(op, ct, store, intercept, k) ==
    [op |-> op, confounder_types |-> ct, store_model_fit |-> store,
     intercept |-> intercept, n_neighbors |-> k]

NoCall == Call("none", EmptyMap, FALSE, FALSE, 0)

Ret(err, val) == [err |-> err, val |-> val]

NoDiDCall ==
    [op |-> "none", start |-> "", end |-> "", assignment |-> "", err |-> "none",
     result |-> FALSE]

NoDiD ==
    /\ did_model = "none"
    /\ df = NoFrame
    /\ did_call = NoDiDCall

\* PropensityScoreMatching.__init__ and a table to work on
InitObject(tables) ==
    /\ NoDiD
    /\ X \in tables
    /\ propensity_score_model = NoModel
    /\ treatments = NoFrame
    /\ control = NoFrame
    /\ tie \in TieOrders
    /\ X0 = X
    /\ calls = 0
    /\ call = NoCall
    /\ ret = Ret("none", NaN)

Score ==
    \E ct \in ConfounderTypeMaps, store \in BOOLEAN, intercept \in BOOLEAN :
        \E r \in {ScoreCall(X, ct, store, intercept, propensity_score_model)} :
            /\ X' = r.X
            /\ propensity_score_model' = r.model
            /\ call' = Call("score", ct, store, intercept, 0)
            /\ ret' = Ret(r.err, NaN)
            /\ UNCHANGED <<treatments, control, tie, X0, didvars>>
            /\ calls' = calls + 1

Match ==
    \E k \in 1..MaxNeighbors :
        \E r \in {MatchCall(X, k, tie)} :
            /\ IF r.err = "none"
               THEN treatments' = r.treatments /\ control' = r.control
               ELSE UNCHANGED <<treatments, control>>
            /\ call' = Call("match", EmptyMap, FALSE, FALSE, k)
            /\ ret' = Ret(r.err, NaN)
            /\ UNCHANGED <<X, propensity_score_model, tie, X0, didvars>>
            /\ calls' = calls + 1

\* called, as its docstring asks, with the frames match returned
EstimateTreatments ==
    /\ HasCol(treatments, "matches")
    /\ treatments' = EstimateTreatmentsCall(treatments, control)
    /\ call' = Call("estimate_treatments", EmptyMap, FALSE, FALSE, 0)
    /\ ret' = Ret("none", NaN)
    /\ UNCHANGED <<X, propensity_score_model, control, tie, X0, didvars>>
    /\ calls' = calls + 1

\* an estimator call that ended as r says
EstimateStep(op, ct, k, r) ==
    /\ X' = r.X
    /\ propensity_score_model' = r.model
    /\ call' = Call(op, ct, FALSE, FALSE, k)
    /\ ret' = Ret(r.err, r.val)
    /\ UNCHANGED <<treatments, control, tie, X0, didvars>>
    /\ calls' = calls + 1

EstimateATT ==
    \E ct \in EstimatorTypeMaps, k \in 1..MaxNeighbors :
        \E r \in {ATTCall(X, ct, k, tie, propensity_score_model)} :
            EstimateStep("estimate_ATT", ct, k, r)

EstimateATC ==
    \E ct \in EstimatorTypeMaps, k \in 1..MaxNeighbors :
        \E r \in {ATCCall(X, ct, k, tie, propensity_score_model)} :
            EstimateStep("estimate_ATC", ct, k, r)

EstimateATE ==
    \E ct \in EstimatorTypeMaps, k \in 1..MaxNeighbors :
        \E r \in {ATECall(X, ct, k, tie, propensity_score_model)} :
            EstimateStep("estimate_ATE", ct, k, r)

\* one call of an estimator on a fresh object
InitEst == InitObject(Tables(MaxRows))

NextEst ==
    \/ calls = 0 /\ EstimateATT
    \/ calls = 0 /\ EstimateATC
    \/ calls = 0 /\ EstimateATE

SpecEst == InitEst /\ [][NextEst]_vars

\* A sequence of calls on one object.  The stored model depends on neither the
\* row order nor the outcomes, so the tables here have their rows in
\* (assignment, x) order and every outcome 0.
SortedTables(m) ==
    {T \in Tables(m) :
        /\ \A i \in 1..T.n : T.cols["outcome"][i] = 0
        /\ \A i \in 1..(T.n - 1) :
              2 * T.cols["assignment"][i] + T.cols["x"][i]
                <= 2 * T.cols["assignment"][i + 1] + T.cols["x"][i + 1]}

\* such a table as it is, or as an earlier score call that stored nothing left it
ScoredBefore(m) ==
    {ScoreCall(T, EmptyMap, FALSE, TRUE, NoModel).X : T \in SortedTables(m)}

Init == InitObject(SortedTables(MaxObjRows) \cup ScoredBefore(MaxObjRows))

Next ==
    \/ calls < MaxCalls /\ Score
    \/ calls < MaxCalls /\ Match
    \/ calls < MaxCalls /\ EstimateTreatments
    \/ calls < MaxCalls /\ EstimateATT
    \/ calls < MaxCalls /\ EstimateATC
    \/ calls < MaxCalls /\ EstimateATE

Spec == Init /\ [][Next]_vars

\* --------------------------------------------- match and estimate_treatments
\* on tables that already carry a propensity score, and on frames a caller built
ScoreGrid == {Rat(4, 5), Rat(17, 20), Rat(9, 10)}

ScoredTables(m) ==
    UNION {{Frame(n, [c \in {"assignment", "outcome", "propensity score"} |->
                        IF c = "assignment" THEN a ELSE IF c = "outcome" THEN o ELSE ps],
                  {}) :
              a \in [1..n -> {0, 1}], o \in [1..n -> Outcomes], ps \in [1..n -> ScoreGrid]} :
           n \in 0..m}

\* 2 treated units with scores 0.8 and 0.9, 3 control units with scores 0.1, 0.85
\* and 0.95, in every row order
ScenarioRows ==
    << [assignment |-> 1, ps |-> Rat(4, 5)],   [assignment |-> 1, ps |-> Rat(9, 10)],
       [assignment |-> 0, ps |-> Rat(1, 10)],  [assignment |-> 0, ps |-> Rat(17, 20)],
       [assignment |-> 0, ps |-> Rat(19, 20)] >>

ScenarioTable(perm) ==
    Frame(Len(perm),
          [c \in {"assignment", "outcome", "propensity score"} |->
              IF c = "assignment"
                  THEN [i \in 1..Len(perm) |-> ScenarioRows[perm[i]].assignment]
              ELSE IF c = "outcome" THEN ConstCol(Len(perm), 0)
              ELSE [i \in 1..Len(perm) |-> ScenarioRows[perm[i]].ps]], {})

ScenarioTables(rows) ==
    {ScenarioTable(perm) :
        perm \in {q \in [1..rows -> 1..rows] : \A i, j \in 1..rows : i # j => q[i] # q[j]}}

\* frames handed to estimate_treatments by a caller that listed the matches
\* itself: one treated unit, its matches any positions of the control frame
GivenFrames(m, kmax) ==
    UNION {{[treatments |->
                Frame(1, [c \in {"outcome", "matches"} |->
                            IF c = "outcome" THEN <<ot>> ELSE <<ms>>], {}),
             control |-> Frame(n, [c \in {"outcome"} |-> oc], {})] :
              ot \in Outcomes, oc \in [1..n -> Outcomes],
              ms \in UNION {[1..k -> 1..n] : k \in 1..kmax}} :
           n \in 1..m}

InitMatch ==
    \/ InitObject(ScoredTables(MaxMatchRows) \cup ScenarioTables(Len(ScenarioRows)))
    \/ /\ NoDiD
       /\ X = NoFrame
       /\ X0 = NoFrame
       /\ propensity_score_model = NoModel
       /\ \E g \in GivenFrames(MaxMatchRows, MaxNeighbors) : treatments = g.treatments /\ control = g.control
       /\ tie \in TieOrders
       /\ calls = 0
       /\ call = NoCall
       /\ ret = Ret("none", NaN)

\* match on the table, then estimate_treatments on the frames in hand
NextMatch ==
    \/ calls = 0 /\ ~HasCol(treatments, "matches") /\ Match
    \/ ~HasCol(treatments, "control outcome") /\ EstimateTreatments

SpecMatch == InitMatch /\ [][NextMatch]_vars

\* ------------------------------------------------- DifferenceInDifferences
\* __init__(robust): self.model
ModelClass(robust) == IF robust THEN "RLM" ELSE "OLS"

\* DataFrame.append: the rows of G below the rows of F
AppendFrame(F, G) ==
    Frame(F.n + G.n, [c \in DOMAIN F.cols |-> F.cols[c] \o G.cols[c]], F.obj)

\* pd.DataFrame({'y': y, 'assignment': [a for i in y], 't': [t for i in y]})
PanelBlock(y, a, t) ==
    Frame(Len(y), [c \in {"y", "assignment", "t"} |->
                     IF c = "y" THEN y ELSE ConstCol(Len(y), IF c = "assignment" THEN a ELSE t)],
          {})

\* df['did'] = df['t'] * df['assignment']
DidColumn_either(F) == [i \in 1..F.n |-> IF F.cols["t"][i] + F.cols["assignment"][i] > 0 THEN 1 ELSE 0]

DidColumn(F) == [i \in 1..F.n |-> F.cols["t"][i] * F.cols["assignment"][i]]

\* the columns average_treatment_effect reads: the literals of its body, whatever
\* the start, end and assignment arguments are
ColumnsRead_named(start, end, assignment) ==
    [start |-> start, end |-> end, assignment |-> assignment]

ColumnsRead(start, end, assignment) ==
    [start |-> "Start", end |-> "End", assignment |-> "Assignment"]

\* the panel built from the columns named by cr: test-pre, test-post, control-pre
\* and control-post stacked, then did and intercept
Stacked(test, ctl, cr) ==
    AppendFrame(AppendFrame(AppendFrame(PanelBlock(test.cols[cr.start], 1, 0),
                                        PanelBlock(test.cols[cr.end], 1, 1)),
                            PanelBlock(ctl.cols[cr.start], 0, 0)),
                PanelBlock(ctl.cols[cr.end], 0, 1))

Panel(F, cr) ==
    Only({WithCol(WithCol(stacked, "did", DidColumn(stacked)),
                  "intercept", ConstCol(stacked.n, 1)) :
            stacked \in {Stacked(RowsWhere(F, cr.assignment, 1),
                                 RowsWhere(F, cr.assignment, 0), cr)}})

\* self.model(df['y'], df[[...]]).fit() is the regression library's: an empty
\* panel is refused; otherwise it returns a result, or the fit raises the
\* library's own error.  The numbers it returns are not modelled.
FitOutcomes(panel) ==
    IF panel.n = 0 THEN {"ValueError"} ELSE {"none", "LinAlgError"}

\* average_treatment_effect(X, start, end, assignment): the exceptions it can end
\* with ("none": it returns a triple) and the panel it built
ATEOutcomes(F, start, end, assignment) ==
    UNION {IF {cr.assignment, cr.start, cr.end} \subseteq DOMAIN F.cols
           THEN UNION {{[err |-> e, df |-> panel] : e \in FitOutcomes(panel)} :
                         panel \in {Panel(F, cr)}}
           ELSE {[err |-> "KeyError", df |-> NoFrame]} :
             cr \in {ColumnsRead(start, end, assignment)}}

DiDCall(op, start, end, assignment, err, result) ==
    [op |-> op, start |-> start, end |-> end, assignment |-> assignment, err |-> err,
     result |-> result]

\* the column names a caller passes: the defaults, or its own name for the
\* pre-period column
DiDArguments ==
    {[start |-> "Start", end |-> "End", assignment |-> "Assignment"],
     [start |-> "pre", end |-> "End", assignment |-> "Assignment"]}

AverageTreatmentEffect ==
    \E a \in DiDArguments :
        \E r \in ATEOutcomes(X, a.start, a.end, a.assignment) :
            /\ df' = r.df
            /\ did_call' = DiDCall("average_treatment_effect", a.start, a.end,
                                   a.assignment, r.err, FALSE)
            /\ calls' = calls + 1
            /\ UNCHANGED <<X, X0, did_model, propensity_score_model, treatments, control,
                           tie, call, ret>>

\* test_parallel_trend: lower <= 0 <= upper of the triple; the interval is the
\* regression library's, so either answer can come back
TestParallelTrend ==
    \E a \in DiDArguments :
        \E r \in ATEOutcomes(X, a.start, a.end, a.assignment) :
            \E answer \in (IF r.err = "none" THEN BOOLEAN ELSE {FALSE}) :
                /\ df' = r.df
                /\ did_call' = DiDCall("test_parallel_trend", a.start, a.end,
                                       a.assignment, r.err, answer)
                /\ calls' = calls + 1
                /\ UNCHANGED <<X, X0, did_model, propensity_score_model, treatments,
                               control, tie, call, ret>>

\* the tables handed to DifferenceInDifferences: the default columns, with or
\* without a further pre-period column, or with a default column missing
DiDValues ==
    [c \in {"Assignment", "Start", "End", "pre"} |->
        IF c = "Assignment" THEN {0, 1}
        ELSE IF c = "Start" THEN {10, 11} ELSE IF c = "End" THEN {10, 15} ELSE {9}]

DiDColumnSets ==
    {{"Assignment", "Start", "End"}, {"Assignment", "Start", "End", "pre"},
     {"Assignment", "pre", "End"}, {"Start", "End"}}

DiDTables(m) ==
    UNION {{Frame(n, [c \in cs |-> v[c]], {}) :
              v \in {[c \in DOMAIN DiDValues |->
                        IF c = "Assignment" THEN a
                        ELSE IF c = "Start" THEN s ELSE IF c = "End" THEN e ELSE p] :
                     a \in [1..n -> DiDValues["Assignment"]],
                     s \in [1..n -> DiDValues["Start"]],
                     e \in [1..n -> DiDValues["End"]],
                     p \in [1..n -> DiDValues["pre"]]}} :
           n \in 0..m, cs \in DiDColumnSets}

InitDiD ==
    /\ X \in DiDTables(MaxDiDRows)
    /\ X0 = X
    /\ \E robust \in BOOLEAN : did_model = ModelClass(robust)
    /\ df = NoFrame
    /\ did_call = NoDiDCall
    /\ propensity_score_model = NoModel
    /\ treatments = NoFrame
    /\ control = NoFrame
    /\ tie = "low index first"
    /\ calls = 0
    /\ call = NoCall
    /\ ret = Ret("none", NaN)

NextDiD ==
    \/ calls = 0 /\ AverageTreatmentEffect
    \/ calls = 0 /\ TestParallelTrend

SpecDiD == InitDiD /\ [][NextDiD]_vars

\* ================================================================ properties
Treated(F, col) == {i \in 1..F.n : F.cols[col][i] = 1}

Controls(F, col) == {i \in 1..F.n : F.cols[col][i] = 0}

RECURSIVE SumAt(_, _)
SumAt(vals, positions) ==
    IF positions = <<>> THEN 0 ELSE vals[Head(positions)] + SumAt(vals, Tail(positions))

Returned(op) == call.op = op /\ ret.err = "none"

\* C1: when estimate_ATE returns, its value is p*ATT + (1-p)*ATC, ATT and ATC being
\* what estimate_ATT and estimate_ATC return for the table and arguments it was
\* given, and p the share of assignment = 1 rows of that table.
C1_ATEDecomposition ==
    Returned("estimate_ATE") =>
        LET att == ATTCall(X0, call.confounder_types, call.n_neighbors, tie, NoModel)
            atc == ATCCall(X0, call.confounder_types, call.n_neighbors, tie, NoModel)
            p == Rat(Cardinality(Treated(X0, "assignment")), X0.n)
        IN  /\ att.err = "none" /\ atc.err = "none"
            /\ ~IsNaN(ret.val)
            /\ ret.val = RatAdd(RatMul(p, att.val), RatMul(RatSub(RatInt(1), p), atc.val))

\* estimate_ATE has returned on a table whose ATT and ATC differ and whose
\* treated share is not one half
C1_Witness ==
    /\ Returned("estimate_ATE")
    /\ 2 * Cardinality(Treated(X0, "assignment")) # X0.n
    /\ ATTCall(X0, call.confounder_types, call.n_neighbors, tie, NoModel).val
         # ATCCall(X0, call.confounder_types, call.n_neighbors, tie, NoModel).val

\* C2: after match with n_neighbors = k, the treated and control frames are the
\* assignment = 1 and assignment = 0 rows of the table, and every treated unit's
\* matches are k distinct positions of the control frame, in order of
\* non-decreasing distance between the control's score and the unit's own score,
\* no unlisted control being nearer than a listed one.
C2_MatchesNearestFirst ==
    Returned("match") =>
        LET cs == control.cols["propensity score"]
        IN  /\ control = RowsWhere(X, "assignment", 0)
            /\ treatments.n = Cardinality(Treated(X, "assignment"))
            /\ \A i \in 1..treatments.n :
                LET m == treatments.cols["matches"][i]
                    own == treatments.cols["propensity score"][i]
                IN  /\ Len(m) = call.n_neighbors
                    /\ \A j \in 1..Len(m) : m[j] \in 1..control.n
                    /\ \A j, l \in 1..Len(m) : j < l =>
                          /\ m[j] # m[l]
                          /\ ~Nearer(cs[m[l]], cs[m[j]], own)
                    /\ \A c \in 1..control.n, j \in 1..Len(m) :
                          Nearer(cs[c], cs[m[j]], own) => \E l \in 1..Len(m) : m[l] = c

\* match has given two treated units two matches each, and one control is matched
\* to both of them
C2_Witness ==
    /\ Returned("match")
    /\ call.n_neighbors = 2
    /\ \E i, l \in 1..treatments.n :
          /\ i # l
          /\ treatments.cols["matches"][i][1] = treatments.cols["matches"][l][1]

\* match with n_neighbors = 1 has returned on a table whose rows are the
\* scenario's five, in some order
InScenario ==
    /\ Returned("match")
    /\ call.n_neighbors = 1
    /\ X0.n = Len(ScenarioRows)
    /\ {"assignment", "propensity score"} \subseteq DOMAIN X0.cols
    /\ {<<X0.cols["assignment"][i], X0.cols["propensity score"][i]>> : i \in 1..X0.n}
          = {<<ScenarioRows[j].assignment, ScenarioRows[j].ps>> :
                j \in 1..Len(ScenarioRows)}

MatchedScore(i) == control.cols["propensity score"][treatments.cols["matches"][i][1]]

\* C3 as amended: in the scenario the treated unit with score 0.8 is matched to the
\* control with score 0.85, and the treated unit with score 0.9 to one of the two
\* controls at distance 0.05 from it, 0.85 or 0.95.
C3_ScenarioMatches ==
    InScenario =>
        \A i \in 1..treatments.n :
            /\ treatments.cols["propensity score"][i] = Rat(4, 5)
                  => MatchedScore(i) = Rat(17, 20)
            /\ treatments.cols["propensity score"][i] = Rat(9, 10)
                  => MatchedScore(i) \in {Rat(17, 20), Rat(19, 20)}

\* C3 as stated: the treated unit with score 0.9 is matched to the control with
\* score 0.95.
C3_AsStated ==
    InScenario =>
        \A i \in 1..treatments.n :
            /\ treatments.cols["propensity score"][i] = Rat(4, 5)
                  => MatchedScore(i) = Rat(17, 20)
            /\ treatments.cols["propensity score"][i] = Rat(9, 10)
                  => MatchedScore(i) = Rat(19, 20)

\* match with n_neighbors = 1 has returned on the scenario's table
C3_Witness == InScenario /\ treatments.n = 2 /\ control.n = 3

PanelBuilt == did_call.op # "none" /\ did_call.err # "KeyError"

DidRows == {i \in 1..df.n : df.cols["did"][i] = 1}

\* C4 as amended: the panel has 2 x (treated + control) rows, and the rows with
\* did = 1 are the test-post rows, as many as there are treated rows.
C4_PanelShape ==
    PanelBuilt =>
        /\ df.n = 2 * (Cardinality(Treated(X, "Assignment"))
                         + Cardinality(Controls(X, "Assignment")))
        /\ Cardinality(DidRows) = Cardinality(Treated(X, "Assignment"))
        /\ \A i \in 1..df.n :
              df.cols["did"][i] = 1 <=> (df.cols["t"][i] = 1 /\ df.cols["assignment"][i] = 1)

\* C4 as stated: the panel has 2 x (treated + control) rows and exactly one
\* quarter of them have did = 1.
C4_AsStated ==
    PanelBuilt =>
        /\ df.n = 2 * (Cardinality(Treated(X, "Assignment"))
                         + Cardinality(Controls(X, "Assignment")))
        /\ 4 * Cardinality(DidRows) = df.n

\* a panel has been built from a table with treated and control rows, more of
\* one kind than of the other
C4_Witness ==
    /\ PanelBuilt
    /\ Treated(X, "Assignment") # {} /\ Controls(X, "Assignment") # {}
    /\ Cardinality(Treated(X, "Assignment")) # Cardinality(Controls(X, "Assignment"))

\* C5: a call whose start, end and assignment arguments name columns of the table
\* builds its panel from those columns.
C5_ReadsNamedColumns ==
    (/\ did_call.op # "none"
     /\ {did_call.start, did_call.end, did_call.assignment} \subseteq DOMAIN X.cols) =>
        /\ did_call.err # "KeyError"
        /\ df = Panel(X, ColumnsRead_named(did_call.start, did_call.end,
                                            did_call.assignment))

\* C7: average_treatment_effect ends with a DataError when the table lacks one of
\* the columns Assignment, Start and End, or has no assignment = 1 row or no
\* assignment = 0 row.
C7_DataErrorOnBadTable ==
    (/\ did_call.op = "average_treatment_effect"
     /\ \/ ~({"Assignment", "Start", "End"} \subseteq DOMAIN X.cols)
        \/ Treated(X, "Assignment") = {}
        \/ Controls(X, "Assignment") = {}) =>
        did_call.err = "DataError"

\* C8: score given a tag other than c, o, d ends with a DataError, adds no
\* propensity score column and stores no model.
C8_RejectsUnknownTag ==
    (/\ call.op = "score"
     /\ "x" \in DOMAIN call.confounder_types
     /\ call.confounder_types["x"] \notin {"c", "o", "d"}) =>
        /\ ret.err = "DataError"
        /\ calls = 1 => (~HasCol(X, "propensity score") /\ propensity_score_model = NoModel)

\* C6: each treated row's control outcome, times the number k of its matches, is
\* the sum of the outcomes of the control rows its matches list, a control listed
\* twice counted twice; so every listing weighs 1/k.
C6_ControlOutcomeIsMean ==
    HasCol(treatments, "control outcome") =>
        \A i \in 1..treatments.n :
            LET m == treatments.cols["matches"][i]
            IN  RatMul(treatments.cols["control outcome"][i], RatInt(Len(m)))
                  = RatInt(SumAt(control.cols["outcome"], m))

\* estimate_treatments has averaged two matches that match found, with different
\* outcomes
C6_Witness ==
    /\ HasCol(treatments, "control outcome")
    /\ X0 # NoFrame
    /\ \E i \in 1..treatments.n :
          /\ Len(treatments.cols["matches"][i]) = 2
          /\ treatments.cols["control outcome"][i] = Rat(1, 2)

\* C9: a call changes the stored model only if it is a score call with
\* store_model_fit = true that fits, and such a call leaves the model it fitted;
\* every other call leaves the stored model as it was.
C9_StoredModelFrame ==
    [][LET storing == /\ call'.op = "score" /\ call'.store_model_fit
                      /\ ret'.err = "none" /\ calls' = calls + 1
           fit == LogitFit(X.cols["assignment"],
                           DesignColumns(X, call'.confounder_types, call'.intercept))
       IN  /\ propensity_score_model' # propensity_score_model => storing
           /\ storing => propensity_score_model' = fit /\ fit.err = "none"]_vars

\* an estimator has returned on an object that holds a stored model
C9_Witness ==
    /\ propensity_score_model # NoModel
    /\ call.op \in {"estimate_ATT", "estimate_ATC", "estimate_ATE", "match"}
    /\ ret.err = "none"

\* the table with every assignment value exchanged, 1 for 0 and 0 for 1
Exchanged(F) ==
    Frame(F.n, [c \in DOMAIN F.cols |->
                  IF c = "assignment" THEN [i \in 1..F.n |-> 1 - F.cols[c][i]]
                  ELSE F.cols[c]], F.obj)

\* C10: estimate_ATC ends as estimate_ATT does on the table with every assignment
\* exchanged, returns the negation of its value, and leaves the caller's table
\* as it was.
C10_ATCIsNegatedFlippedATT ==
    call.op = "estimate_ATC" =>
        LET r == ATTCall(Exchanged(X0), call.confounder_types, call.n_neighbors, tie,
                         NoModel)
        IN  /\ ret.err = r.err
            /\ ret.err = "none" => RatAdd(ret.val, r.val) = RatInt(0)
            /\ X = X0

\* estimate_ATC has returned a value other than 0
C10_Witness == Returned("estimate_ATC") /\ ~IsNaN(ret.val) /\ ret.val # RatInt(0)

====
